---- MODULE Spec2Model ----
(***************************************************************************)
(* Model of EmployeesServiceMap (src/service/employee/EmployeesServiceMap  *)
(* .ts): an in-memory Map<string, Employee> seeded from file storage, with *)
(* addEmployee / getAll / updateEmployee / deleteEmployee / toArray /      *)
(* isUpdated.                                                              *)
(*                                                                         *)
(* Employee objects are JavaScript objects: the Map, the arrays returned   *)
(* by getAll/toArray and the callers all hold REFERENCES to them.  The     *)
(* model therefore keeps an object heap (a sequence of field records; a    *)
(* reference is an index into it) and the Map holds references.            *)
(*                                                                         *)
(* An Employee is modelled by the two properties the service itself reads, *)
(* id and department; the service only ever copies the remaining ones      *)
(* (fullName, avatar, birthDate, salary) the way it copies department.     *)
(***************************************************************************)
EXTENDS Integers, Sequences, FiniteSets, TLC

\* ---------------------------------------------------------------- bounds
\* Number of Employee objects ever allocated (request bodies, file rows).
MaxObjs == 2
\* Number of ids uuidv4() hands out.
MaxUuid == 1

\* ------------------------------------------------------------ value sets
\* The JavaScript value `undefined` (a missing property).
undefined == "<undefined>"

\* Ids a caller writes explicitly (the empty string is a string too).
ExplicitIds == {"", "e1", "e2"}
Departments == {"Sales", "sales"}

VARIABLES
    heap,        \* object heap: heap[ref] = fields of the Employee object
    _employees,  \* the Map, in insertion order: <<[key, value]>>, value a ref
    _isUpdated,  \* the unsaved-changes flag
    uuidCount,   \* how many ids uuidv4() has generated so far
    returned,    \* the array the last call returned (getAll/toArray): refs
    held,        \* an array returned earlier that its caller still holds
    mutated,     \* history: an add, update or delete has succeeded since
                 \* construction
    op           \* the last call: name, arguments, outcome (out: the fields
                 \* of the object passed to addEmployee, after the call)

vars == <<heap, _employees, _isUpdated, uuidCount, returned, held, mutated, op>>

\* ------------------------------------------------------- JavaScript bits
\* Truthiness of a string-or-undefined value: `if (x)`.
Truthy(x) == x # undefined /\ x # ""

\* Map.prototype.has
MapHas(m, k) == \E i \in DOMAIN m : m[i].key = k

\* Map.prototype.get: the value, or undefined (0 is no reference).
MapGet(m, k) ==
    IF MapHas(m, k) THEN m[CHOOSE i \in DOMAIN m : m[i].key = k].value ELSE 0

\* Map.prototype.set: an existing key keeps its position, a new one is appended.
MapSet(m, k, v) ==
    IF MapHas(m, k)
    THEN [i \in DOMAIN m |-> IF m[i].key = k THEN [key |-> k, value |-> v] ELSE m[i]]
    ELSE Append(m, [key |-> k, value |-> v])

\* Map.prototype.delete
MapDelete(m, k) == SelectSeq(m, LAMBDA e : e.key # k)

\* Array.from(map.values())
MapValues(m) == [i \in DOMAIN m |-> m[i].value]

MapKeys(m) == {m[i].key : i \in DOMAIN m}

\* A merge that replaces the whole object by the patch.
ObjectAssign_replace(target, source) == source

\* Object.assign(target, source): every property present in source overwrites.
ObjectAssign(target, source) ==
    [f \in DOMAIN target |-> IF source[f] # undefined THEN source[f] ELSE target[f]]

\* The n-th id uuidv4() produces; distinct calls give distinct ids.
uuidv4(n) == "u" \o ToString(n + 1)

\* Ids generated so far, which a caller may therefore know and pass back.
KnownUuids == {uuidv4(n) : n \in 0 .. uuidCount - 1}

IdArgs == ExplicitIds \cup KnownUuids

\* ------------------------------------------------------------ operations
\* A fill loop without the `if (employee.id)` test.
RECURSIVE FillLoop_noSkip(_, _, _)
FillLoop_noSkip(m, employees, h) ==
    IF employees = <<>> THEN m
    ELSE LET employee == Head(employees) IN
         FillLoop_noSkip(MapSet(m, h[employee].id, employee),
                         Tail(employees), h)

\* A fill loop that keeps the first record of an id and drops later ones.
RECURSIVE FillLoop_firstWins(_, _, _)
FillLoop_firstWins(m, employees, h) ==
    IF employees = <<>> THEN m
    ELSE LET employee == Head(employees) IN
         FillLoop_firstWins(IF Truthy(h[employee].id) /\ ~MapHas(m, h[employee].id)
                            THEN MapSet(m, h[employee].id, employee)
                            ELSE m,
                            Tail(employees), h)

\* _fillEmployeeMap: clear, then set every employee with a truthy id.
RECURSIVE FillLoop(_, _, _)
FillLoop(m, employees, h) ==
    IF employees = <<>> THEN m
    ELSE LET employee == Head(employees) IN
         FillLoop(IF Truthy(h[employee].id)
                  THEN MapSet(m, h[employee].id, employee)
                  ELSE m,
                  Tail(employees), h)

_fillEmployeeMap(employees, h) == FillLoop(<<>>, employees, h)

\* A lookup that falls back to the first entry instead of throwing.
_getById_fallback(m, id) ==
    IF MapHas(m, id) THEN MapGet(m, id)
    ELSE IF m # <<>> THEN m[1].value ELSE 0

\* _getById: the stored reference, or 0 when NotFoundError is thrown.
_getById(m, id) == MapGet(m, id)

\* Upper-case letters folded, for a filter that ignores case.
Fold(x) == IF x = "Sales" THEN "sales" ELSE x

\* A getAll whose filter compares case-insensitively.
getAll_ignoreCase(m, h, department) ==
    LET all == MapValues(m) IN
    IF Truthy(department)
    THEN SelectSeq(all, LAMBDA empl : Fold(h[empl].department) = Fold(department))
    ELSE all

\* getAll(department): a new array of the stored references, filtered when
\* department is truthy.
getAll(m, h, department) ==
    LET all == MapValues(m) IN
    IF Truthy(department)
    THEN SelectSeq(all, LAMBDA empl : h[empl].department = department)
    ELSE all

\* toArray()
toArray(m) == MapValues(m)

\* An object with no property set: stands for "no Employee argument" in op.
NoEmployee == [id |-> undefined, department |-> undefined]

NoCall == [name |-> "new", arg |-> undefined, err |-> "none", ret |-> 0,
           empl |-> NoEmployee, out |-> NoEmployee]

\* The arrays fileStorage.loadEmployees() is made to return: nothing, one
\* row, a row with an empty id or without id next to a good one, the same id
\* twice, two different ids.
LoadArrays ==
    { <<>>,
      <<[id |-> "e1", department |-> "Sales"]>>,
      <<[id |-> "", department |-> "Sales"],
        [id |-> "e1", department |-> "sales"]>>,
      <<[id |-> "e1", department |-> "Sales"],
        [id |-> undefined, department |-> "sales"]>>,
      <<[id |-> "e1", department |-> "Sales"],
        [id |-> "e1", department |-> "sales"]>>,
      <<[id |-> "e1", department |-> "Sales"],
        [id |-> "e2", department |-> "sales"]>> }

\* A constructor whose load marks the index clean whatever flag was passed.
Init_loadForcesFlag ==
    \E isUpdated \in BOOLEAN, loaded \in LoadArrays :
        /\ heap = loaded
        /\ _employees = _fillEmployeeMap([i \in DOMAIN loaded |-> i], loaded)
        /\ _isUpdated = FALSE
        /\ uuidCount = 0
        /\ returned = <<>>
        /\ held = <<>>
        /\ mutated = FALSE
        /\ op = [NoCall EXCEPT !.arg = IF isUpdated THEN "true" ELSE "false",
                              !.ret = Len(loaded)]

\* constructor(isUpdated = false): set the flag, then _loadFromFile().
Init ==
    \E isUpdated \in BOOLEAN, loaded \in LoadArrays :
        /\ heap = loaded
        /\ _employees = _fillEmployeeMap([i \in DOMAIN loaded |-> i], loaded)
        /\ _isUpdated = isUpdated
        /\ uuidCount = 0
        /\ returned = <<>>
        /\ held = <<>>
        /\ mutated = FALSE
        /\ op = [NoCall EXCEPT !.arg = IF isUpdated THEN "true" ELSE "false",
                              !.ret = Len(loaded)]

\* An addEmployee that raises the flag before it looks the key up.
addEmployee_flagFirst(empl) ==
    LET generated == empl.id = undefined
        id == IF generated THEN uuidv4(uuidCount) ELSE empl.id
        ref == Len(heap) + 1
    IN  /\ generated => uuidCount < MaxUuid
        /\ uuidCount' = IF generated THEN uuidCount + 1 ELSE uuidCount
        /\ _isUpdated' = TRUE
        /\ IF MapHas(_employees, id)
           THEN /\ op' = [name |-> "add", arg |-> id, err |-> "AlreadyExists",
                          ret |-> 0, empl |-> empl, out |-> empl]
                /\ returned' = <<>>
                /\ UNCHANGED <<heap, _employees, held, mutated>>
           ELSE /\ Len(heap) < MaxObjs
                /\ heap' = Append(heap, [empl EXCEPT !.id = id])
                /\ _employees' = MapSet(_employees, id, ref)
                /\ mutated' = TRUE
                /\ op' = [name |-> "add", arg |-> id, err |-> "none",
                          ret |-> ref, empl |-> empl,
                          out |-> [empl EXCEPT !.id = id]]
                /\ returned' = <<>>
                /\ UNCHANGED held

\* An addEmployee that overwrites an occupied key instead of throwing.
addEmployee_overwrite(empl) ==
    LET generated == empl.id = undefined
        id == IF generated THEN uuidv4(uuidCount) ELSE empl.id
        ref == Len(heap) + 1
    IN  /\ generated => uuidCount < MaxUuid
        /\ uuidCount' = IF generated THEN uuidCount + 1 ELSE uuidCount
        /\ Len(heap) < MaxObjs
        /\ heap' = Append(heap, [empl EXCEPT !.id = id])
        /\ _employees' = MapSet(_employees, id, ref)
        /\ _isUpdated' = TRUE
        /\ mutated' = TRUE
        /\ op' = [name |-> "add", arg |-> id, err |-> "none",
                  ret |-> ref, empl |-> empl,
                          out |-> [empl EXCEPT !.id = id]]
        /\ returned' = <<>>
        /\ UNCHANGED held

\* An addEmployee that forgets `empl.id = id`: the record is stored under the
\* key but does not carry it.
addEmployee_noAssign(empl) ==
    LET generated == empl.id = undefined
        id == IF generated THEN uuidv4(uuidCount) ELSE empl.id
        ref == Len(heap) + 1
    IN  /\ generated => uuidCount < MaxUuid
        /\ uuidCount' = IF generated THEN uuidCount + 1 ELSE uuidCount
        /\ IF MapHas(_employees, id)
           THEN /\ op' = [name |-> "add", arg |-> id, err |-> "AlreadyExists",
                          ret |-> 0, empl |-> empl, out |-> empl]
                /\ returned' = <<>>
                /\ UNCHANGED <<heap, _employees, _isUpdated, held, mutated>>
           ELSE /\ Len(heap) < MaxObjs
                /\ heap' = Append(heap, empl)
                /\ _employees' = MapSet(_employees, id, ref)
                /\ _isUpdated' = TRUE
                /\ mutated' = TRUE
                /\ op' = [name |-> "add", arg |-> id, err |-> "none",
                          ret |-> ref, empl |-> empl, out |-> empl]
                /\ returned' = <<>>
                /\ UNCHANGED held

\* addEmployee(empl) with empl a fresh object (a request body).
addEmployee(empl) ==
    LET generated == empl.id = undefined
        id == IF generated THEN uuidv4(uuidCount) ELSE empl.id
        ref == Len(heap) + 1
    IN  /\ generated => uuidCount < MaxUuid
        /\ uuidCount' = IF generated THEN uuidCount + 1 ELSE uuidCount
        /\ IF MapHas(_employees, id)
           THEN /\ op' = [name |-> "add", arg |-> id, err |-> "AlreadyExists",
                          ret |-> 0, empl |-> empl, out |-> empl]
                /\ returned' = <<>>
                /\ UNCHANGED <<heap, _employees, _isUpdated, held, mutated>>
           ELSE /\ Len(heap) < MaxObjs
                /\ heap' = Append(heap, [empl EXCEPT !.id = id])
                /\ _employees' = MapSet(_employees, id, ref)
                /\ _isUpdated' = TRUE
                /\ mutated' = TRUE
                /\ op' = [name |-> "add", arg |-> id, err |-> "none",
                          ret |-> ref, empl |-> empl,
                          out |-> [empl EXCEPT !.id = id]]
                /\ returned' = <<>>
                /\ UNCHANGED held

\* The request bodies tried: without an id, with an empty id, with explicit
\* ids (e1 twice, with different fields).
AddInputs ==
    { [id |-> undefined, department |-> "Sales"],
      [id |-> "", department |-> "sales"],
      [id |-> "e1", department |-> "Sales"],
      [id |-> "e1", department |-> "sales"],
      [id |-> "e2", department |-> "sales"] }

AddEmployee == \E empl \in AddInputs : addEmployee(empl)

\* An updateEmployee that forgets `this._isUpdated = true`.
updateEmployee_noFlag(id, empl) ==
    LET existing == _getById(_employees, id) IN
    IF existing = 0
    THEN /\ op' = [name |-> "update", arg |-> id, err |-> "NotFound",
                   ret |-> 0, empl |-> empl, out |-> NoEmployee]
         /\ returned' = <<>>
         /\ UNCHANGED <<heap, _employees, _isUpdated, uuidCount, held, mutated>>
    ELSE /\ heap' = [heap EXCEPT ![existing] = ObjectAssign(@, empl)]
         /\ mutated' = TRUE
         /\ op' = [name |-> "update", arg |-> id, err |-> "none",
                   ret |-> existing, empl |-> empl, out |-> NoEmployee]
         /\ returned' = <<>>
         /\ UNCHANGED <<_employees, _isUpdated, uuidCount, held>>

\* updateEmployee(id, empl): Object.assign onto the stored object itself.
updateEmployee(id, empl) ==
    LET existing == _getById(_employees, id) IN
    IF existing = 0
    THEN /\ op' = [name |-> "update", arg |-> id, err |-> "NotFound",
                   ret |-> 0, empl |-> empl, out |-> NoEmployee]
         /\ returned' = <<>>
         /\ UNCHANGED <<heap, _employees, _isUpdated, uuidCount, held, mutated>>
    ELSE /\ heap' = [heap EXCEPT ![existing] = ObjectAssign(@, empl)]
         /\ _isUpdated' = TRUE
         /\ mutated' = TRUE
         /\ op' = [name |-> "update", arg |-> id, err |-> "none",
                   ret |-> existing, empl |-> empl, out |-> NoEmployee]
         /\ returned' = <<>>
         /\ UNCHANGED <<_employees, uuidCount, held>>

\* A Partial<Employee>: undefined marks a property the patch does not have.
\* The bodies tried: a new id, nothing, a new department, both.
Patches ==
    { [id |-> "e2", department |-> undefined],
      [id |-> undefined, department |-> undefined],
      [id |-> undefined, department |-> "sales"],
      [id |-> "e2", department |-> "Sales"] }

UpdateEmployee == \E id \in IdArgs, empl \in Patches : updateEmployee(id, empl)

\* A deleteEmployee that calls clear() instead of delete(id).
deleteEmployee_clear(id) ==
    LET existing == _getById(_employees, id) IN
    IF existing = 0
    THEN /\ op' = [name |-> "delete", arg |-> id, err |-> "NotFound",
                   ret |-> 0, empl |-> NoEmployee, out |-> NoEmployee]
         /\ returned' = <<>>
         /\ UNCHANGED <<heap, _employees, _isUpdated, uuidCount, held, mutated>>
    ELSE /\ _employees' = <<>>
         /\ _isUpdated' = TRUE
         /\ mutated' = TRUE
         /\ op' = [name |-> "delete", arg |-> id, err |-> "none",
                   ret |-> existing, empl |-> heap[existing],
                   out |-> NoEmployee]
         /\ returned' = <<>>
         /\ UNCHANGED <<heap, uuidCount, held>>

\* A deleteEmployee that forgets `this._isUpdated = true`.
deleteEmployee_noFlag(id) ==
    LET existing == _getById(_employees, id) IN
    IF existing = 0
    THEN /\ op' = [name |-> "delete", arg |-> id, err |-> "NotFound",
                   ret |-> 0, empl |-> NoEmployee, out |-> NoEmployee]
         /\ returned' = <<>>
         /\ UNCHANGED <<heap, _employees, _isUpdated, uuidCount, held, mutated>>
    ELSE /\ _employees' = MapDelete(_employees, id)
         /\ mutated' = TRUE
         /\ op' = [name |-> "delete", arg |-> id, err |-> "none",
                   ret |-> existing, empl |-> heap[existing],
                   out |-> NoEmployee]
         /\ returned' = <<>>
         /\ UNCHANGED <<heap, _isUpdated, uuidCount, held>>

\* deleteEmployee(id)
deleteEmployee(id) ==
    LET existing == _getById(_employees, id) IN
    IF existing = 0
    THEN /\ op' = [name |-> "delete", arg |-> id, err |-> "NotFound",
                   ret |-> 0, empl |-> NoEmployee, out |-> NoEmployee]
         /\ returned' = <<>>
         /\ UNCHANGED <<heap, _employees, _isUpdated, uuidCount, held, mutated>>
    ELSE /\ _employees' = MapDelete(_employees, id)
         /\ _isUpdated' = TRUE
         /\ mutated' = TRUE
         /\ op' = [name |-> "delete", arg |-> id, err |-> "none",
                   ret |-> existing, empl |-> heap[existing],
                   out |-> NoEmployee]
         /\ returned' = <<>>
         /\ UNCHANGED <<heap, uuidCount, held>>

DeleteEmployee == \E id \in IdArgs : deleteEmployee(id)

\* What a caller may pass as getAll's optional department.
DepartmentArgs == Departments \cup {undefined, ""}

GetAll ==
    \E department \in DepartmentArgs :
        /\ returned' = getAll(_employees, heap, department)
        /\ op' = [name |-> "getAll", arg |-> department, err |-> "none",
                  ret |-> 0, empl |-> NoEmployee, out |-> NoEmployee]
        /\ UNCHANGED <<heap, _employees, _isUpdated, uuidCount, held, mutated>>

ToArray ==
    /\ returned' = toArray(_employees)
    /\ op' = [name |-> "toArray", arg |-> undefined, err |-> "none",
              ret |-> 0, empl |-> NoEmployee, out |-> NoEmployee]
    /\ UNCHANGED <<heap, _employees, _isUpdated, uuidCount, held, mutated>>

\* An isUpdated() that clears the flag once it has been read.
IsUpdated_reset ==
    /\ op' = [name |-> "isUpdated", arg |-> IF _isUpdated THEN "true" ELSE "false",
              err |-> "none", ret |-> 0, empl |-> NoEmployee, out |-> NoEmployee]
    /\ returned' = <<>>
    /\ _isUpdated' = FALSE
    /\ UNCHANGED <<heap, _employees, uuidCount, held, mutated>>

\* isUpdated(): returns the flag.
IsUpdated ==
    /\ op' = [name |-> "isUpdated", arg |-> IF _isUpdated THEN "true" ELSE "false",
              err |-> "none", ret |-> 0, empl |-> NoEmployee, out |-> NoEmployee]
    /\ returned' = <<>>
    /\ UNCHANGED <<heap, _employees, _isUpdated, uuidCount, held, mutated>>

\* _loadFromFile(): _fillEmployeeMap(fileStorage.loadEmployees()), the rows
\* being fresh objects.
_loadFromFile ==
    \E loaded \in LoadArrays :
        /\ Len(heap) + Len(loaded) <= MaxObjs
        /\ heap' = heap \o loaded
        /\ _employees' =
               _fillEmployeeMap([i \in DOMAIN loaded |-> Len(heap) + i], heap')
        /\ op' = [name |-> "reload", arg |-> undefined, err |-> "none",
                  ret |-> Len(loaded), empl |-> NoEmployee, out |-> NoEmployee]
        /\ returned' = <<>>
        /\ UNCHANGED <<_isUpdated, uuidCount, held, mutated>>

\* _fillEmployeeMap(toArray()): the round trip through the snapshot.
ReloadSnapshot ==
    /\ _employees' = _fillEmployeeMap(toArray(_employees), heap)
    /\ op' = [name |-> "reloadSnapshot", arg |-> undefined, err |-> "none",
              ret |-> 0, empl |-> NoEmployee, out |-> NoEmployee]
    /\ returned' = <<>>
    /\ UNCHANGED <<heap, _isUpdated, uuidCount, held, mutated>>

Next ==
    \/ AddEmployee
    \/ UpdateEmployee
    \/ DeleteEmployee
    \/ GetAll
    \/ ToArray
    \/ IsUpdated
    \/ _loadFromFile
    \/ ReloadSnapshot

Spec == Init /\ [][Next]_vars

\* The caller of getAll keeps the array it was given (the service never sees
\* it again; nothing in the service copies the Employee objects in it).
Hold ==
    /\ op.name = "getAll"
    /\ held' = returned
    /\ UNCHANGED <<heap, _employees, _isUpdated, uuidCount, returned, op, mutated>>

NextHeld == Next \/ Hold

SpecHeld == Init /\ [][NextHeld]_vars

\* ------------------------------------------------------- what is checked
StoredRefs == {_employees[i].value : i \in DOMAIN _employees}

\* The record stored under key k.
Stored(k) == heap[MapGet(_employees, k)]

\* The stored records have the same field values after the step as before.
StoredValuesKept ==
    \A i \in DOMAIN _employees :
        heap'[_employees[i].value] = heap[_employees[i].value]

\* C1: every record held in the index has a non-empty id, and no record is
\* stored under an empty key.
C1_NonEmptyIds ==
    \A i \in DOMAIN _employees :
        /\ _employees[i].key # ""
        /\ heap[_employees[i].value].id # undefined
        /\ heap[_employees[i].value].id # ""

\* C2: every record stored under key k has its own id field equal to k.
C2_IdImmutable ==
    \A i \in DOMAIN _employees :
        heap[_employees[i].value].id = _employees[i].key

\* C3: no two records returned by getAll() carry the same id.
C3_UniqueIds ==
    LET all == getAll(_employees, heap, undefined) IN
    \A i, j \in DOMAIN all : i # j => heap[all[i]].id # heap[all[j]].id

\* C4: after a successful delete(id), getAll() returns no record whose id is
\* that id, and a second delete(id) would throw NotFound.
C4_DeleteRemoves ==
    (op.name = "delete" /\ op.err = "none") =>
        LET all == getAll(_employees, heap, undefined) IN
        /\ \A i \in DOMAIN all : heap[all[i]].id # op.arg
        /\ _getById(_employees, op.arg) = 0

\* C5: as long as a caller holds an array getAll returned, the records in it
\* keep the field values they had.
C5_SnapshotStable ==
    [][held' = held =>
           \A i \in DOMAIN held : heap'[held[i]] = heap[held[i]]]_vars

\* C6: reload(toSnapshot()) leaves the keys, the ids and the field values of
\* the mapping as they were.
C6_RoundTrip ==
    [][op'.name = "reloadSnapshot" =>
           /\ MapKeys(_employees') = MapKeys(_employees)
           /\ \A k \in MapKeys(_employees) :
                  heap'[MapGet(_employees', k)] = heap[MapGet(_employees, k)]
      ]_vars

\* The refs of the stored records whose department is d, and how many.
InDepartment(d) == {r \in StoredRefs : heap[r].department = d}

ReturnedIs(S) ==
    /\ {returned[i] : i \in DOMAIN returned} = S
    /\ Len(returned) = Cardinality(S)

\* C7 as stated: getAll() returns every stored record, and getAll(d) for
\* every string d exactly the records whose department is d.
C7_FilterEveryString ==
    op.name = "getAll" =>
        IF op.arg = undefined THEN ReturnedIs(StoredRefs)
        ELSE ReturnedIs(InDepartment(op.arg))

\* C7 amended: getAll() and getAll("") return every stored record; getAll(d)
\* for a non-empty d returns exactly the records whose department is d.
C7_FilterNonEmpty ==
    op.name = "getAll" =>
        IF op.arg \in {undefined, ""} THEN ReturnedIs(StoredRefs)
        ELSE ReturnedIs(InDepartment(op.arg))

C7_Witness ==
    /\ op.name = "getAll"
    /\ op.arg = "Sales"
    /\ returned # <<>>
    /\ \E r \in StoredRefs : heap[r].department = "sales"

\* C8: add(r) with r.id unset succeeds and assigns a non-empty id that was
\* not a key before; getAll() then holds exactly one record with that id,
\* with r's other fields.
C8_AddAssignsFreshId ==
    [][(op'.name = "add" /\ op'.empl.id = undefined) =>
           /\ op'.err = "none"
           /\ op'.arg # "" /\ op'.arg # undefined
           /\ ~MapHas(_employees, op'.arg)
           /\ LET all == getAll(_employees', heap', undefined)
                  hits == {i \in DOMAIN all : heap'[all[i]].id = op'.arg}
              IN  /\ Cardinality(hits) = 1
                  /\ \A i \in hits :
                         heap'[all[i]].department = op'.empl.department
      ]_vars

C8_Witness ==
    /\ op.name = "add"
    /\ op.empl.id = undefined
    /\ op.err = "none"
    /\ Len(_employees) >= 2

\* C9: add(r) with an explicit id that is already a key throws AlreadyExists
\* and leaves the keys and the stored records as they were.
C9_AddNoOverwrite ==
    [][(op'.name = "add" /\ op'.empl.id # undefined
            /\ MapHas(_employees, op'.empl.id)) =>
           /\ op'.err = "AlreadyExists"
           /\ _employees' = _employees
           /\ StoredValuesKept
      ]_vars

C9_Witness ==
    /\ op.name = "add"
    /\ op.err = "AlreadyExists"
    /\ Stored(op.arg).department # op.empl.department

\* C10: update and delete throw NotFound exactly when the id is not a key,
\* and then leave the keys and the stored records as they were.
C10_NotFound ==
    [][op'.name \in {"update", "delete"} =>
           /\ (op'.err = "NotFound") <=> ~MapHas(_employees, op'.arg)
           /\ op'.err = "NotFound" =>
                  /\ _employees' = _employees
                  /\ StoredValuesKept
      ]_vars

C10_Witness ==
    /\ op.name \in {"update", "delete"}
    /\ op.err = "NotFound"
    /\ _employees # <<>>

\* The properties of an Employee the model carries.
Fields == {"id", "department"}

\* C11: a successful update(id, patch) gives every field present in the patch
\* the patch's value, leaves every other field as it was, keeps the keys, and
\* returns the record that is still stored under id.
C11_UpdateMerges ==
    [][(op'.name = "update" /\ op'.err = "none") =>
           LET existing == MapGet(_employees, op'.arg) IN
           /\ \A f \in Fields :
                  heap'[existing][f] =
                      IF op'.empl[f] # undefined THEN op'.empl[f]
                      ELSE heap[existing][f]
           /\ _employees' = _employees
           /\ op'.ret = MapGet(_employees', op'.arg)
      ]_vars

C11_Witness ==
    /\ op.name = "update"
    /\ op.err = "none"
    /\ op.empl.id = undefined
    /\ op.empl.department # undefined
    /\ Stored(op.arg).id # undefined

\* The objects of the array the last load was given (construction or reload):
\* the op.ret newest objects of the heap, in input order.
InputRefs ==
    IF op.name \in {"new", "reload"}
    THEN (Len(heap) - op.ret + 1) .. Len(heap)
    ELSE {}

InputWithId == {r \in InputRefs : heap[r].id # undefined /\ heap[r].id # ""}

\* C12 as stated: after reload the mapping contains exactly the input records
\* that have a non-empty id, each keyed by its id.
C12_ReloadKeepsEveryRow ==
    op.name \in {"new", "reload"} =>
        /\ StoredRefs = InputWithId
        /\ \A i \in DOMAIN _employees :
               heap[_employees[i].value].id = _employees[i].key

\* C12 amended: after reload the mapping contains exactly the input records
\* that have a non-empty id and no later input record with the same id, each
\* keyed by its id, and nothing that was in the mapping before.
C12_ReloadKeepsLastRows ==
    op.name \in {"new", "reload"} =>
        /\ StoredRefs =
               {r \in InputWithId :
                    \A q \in InputWithId : heap[q].id = heap[r].id => q <= r}
        /\ \A i \in DOMAIN _employees :
               heap[_employees[i].value].id = _employees[i].key
        /\ \A i, j \in DOMAIN _employees :
               _employees[i].key = _employees[j].key => i = j

\* A reload over a non-empty index.
C12_Witness ==
    /\ op.name = "reload"
    /\ op.ret >= 1
    /\ Len(heap) > op.ret
    /\ _employees # <<>>

C14_ReloadKeepsFlag ==
    /\ [](op.name = "new" => (_isUpdated <=> op.arg = "true"))
    /\ [][op'.name \in {"reload", "reloadSnapshot"} =>
              _isUpdated' = _isUpdated]_vars

\* Constructed with true, and a row of the file was skipped.
C14_Witness ==
    /\ op.name = "new"
    /\ op.arg = "true"
    /\ _isUpdated
    /\ Len(heap) > Len(_employees)

\* C15: a successful add only inserts its key, a successful update only
\* changes the record under its id, a successful delete only removes its key
\* and returns the record as it was; every other key keeps its record.
C15_OneKeyTouched ==
    [][(op'.name \in {"add", "update", "delete"} /\ op'.err = "none") =>
           LET before == MapKeys(_employees)
               after == MapKeys(_employees')
           IN
           /\ \A k \in before \ {op'.arg} :
                  /\ k \in after
                  /\ MapGet(_employees', k) = MapGet(_employees, k)
                  /\ heap'[MapGet(_employees, k)] = heap[MapGet(_employees, k)]
           /\ op'.name = "add" => after = before \cup {op'.arg}
           /\ op'.name = "update" => after = before
           /\ op'.name = "delete" =>
                  /\ after = before \ {op'.arg}
                  /\ op'.ret = MapGet(_employees, op'.arg)
                  /\ heap'[op'.ret] = heap[op'.ret]
                  /\ op'.empl = heap[op'.ret]
      ]_vars

\* A delete that left another record in the index.
C15_Witness ==
    /\ op.name = "delete"
    /\ op.err = "none"
    /\ _employees # <<>>

\* C17: isUpdated(), getAll(department?) and toArray() change neither the
\* index, nor the stored records, nor the flag; isUpdated() returns the flag
\* and toArray() returns what getAll() without a department returns.
C17_QueriesPure ==
    [][(op'.name \in {"isUpdated", "getAll", "toArray"}) =>
           /\ _employees' = _employees
           /\ heap' = heap
           /\ _isUpdated' = _isUpdated
           /\ op'.name = "isUpdated" => (op'.arg = "true" <=> _isUpdated)
           /\ op'.name = "toArray" =>
                  returned' = getAll(_employees, heap, undefined)
      ]_vars

\* A snapshot of a non-empty index taken while the flag is set.
C17_Witness ==
    /\ op.name = "toArray"
    /\ returned # <<>>
    /\ _isUpdated

\* C18: while the flag is false the index is what the last load made it: a
\* step that ends with the flag false started with it false and, unless it is
\* a load, left the keys, the records under them and their fields as they were.
C18_NoUntrackedChange ==
    [][(~_isUpdated') =>
           /\ ~_isUpdated
           /\ \/ op'.name = "reload"
              \/ /\ _employees' = _employees
                 /\ StoredValuesKept
      ]_vars

\* A loaded index that has served a call and still reports no change.
C18_Witness ==
    /\ op.name = "update"
    /\ op.err = "NotFound"
    /\ ~_isUpdated
    /\ _employees # <<>>

\* C19: a call that throws leaves the flag as it was, and an add that throws
\* leaves the id of the object it was given as it was.
C19_FailureKeepsFlag ==
    [][(op'.err # "none") =>
           /\ _isUpdated' = _isUpdated
           /\ op'.name = "add" => op'.out.id = op'.empl.id
      ]_vars

\* An add refused for an occupied key while the flag is still false.
C19_Witness ==
    /\ op.name = "add"
    /\ op.err = "AlreadyExists"
    /\ ~_isUpdated

\* C20: a load whose input repeats a non-empty id does not throw; the index
\* then holds one entry per distinct non-empty id of the input, and the entry
\* of an id is the last input record that carries it.
C20_DuplicateIdLastWins ==
    op.name \in {"new", "reload"} =>
        /\ op.err = "none"
        /\ Len(_employees) = Cardinality({heap[r].id : r \in InputWithId})
        /\ \A r \in InputWithId :
               /\ MapHas(_employees, heap[r].id)
               /\ MapGet(_employees, heap[r].id) >= r
               /\ MapGet(_employees, heap[r].id) \in InputWithId
               /\ heap[MapGet(_employees, heap[r].id)].id = heap[r].id

\* A load of two records with the same id and different departments.
C20_Witness ==
    /\ op.name = "reload"
    /\ \E r, q \in InputWithId :
           /\ r < q
           /\ heap[r].id = heap[q].id
           /\ heap[r].department # heap[q].department
           /\ Stored(heap[r].id).department = heap[q].department
====
